---- MODULE Spec2Model ----
(***************************************************************************)
(* Ship routing: the navigation grid (grid.py), the weather cost model     *)
(* (weather.py), the single-objective searches of ShipRouter               *)
(* (algorithms.py) and BidirectionalAStar (bidirectional_astar.py).        *)
(*                                                                         *)
(* Numbers.  The code computes in binary floating point; the model         *)
(* computes in fixed point:                                                *)
(*   - a length is an integer number of 1/UnitsPerKm km.  One km is 985    *)
(*     units because 985 * sqrt(2) = 1393.0004, so that the length of k    *)
(*     diagonal steps and the Euclidean length of the diagonal agree, as   *)
(*     they do in the code up to rounding in the last place;               *)
(*   - a cost multiplier (base_cost, weather_cost, the result of           *)
(*     calculate_weather_cost) is an integer number of thousandths;        *)
(*   - a movement cost is length * multiplier;                             *)
(*   - fuel is counted in units of (0.15 / 1.852) / (985 * 1000) tons, so  *)
(*     that get_fuel_consumption(d, w) is d * w, and time in units of      *)
(*     1 / (985 * 1.852 * 20) hours, so that it is the length.             *)
(***************************************************************************)
EXTENDS Integers, Sequences, FiniteSets, TLC

VARIABLES
    width, height,      \* NavigationGrid.width, .height
    is_land,            \* Cell.is_land, by coordinates
    weather_cost,       \* Cell.weather_cost (thousandths), by coordinates
    weather,            \* ShipRouter.weather: the WeatherSystem's arrays, or absent
    pc,                 \* where the caller is: "terrain", "costs", "ready" while it
                        \* sets the scene, then "idle" between searches, "loop" in
                        \* a search of ShipRouter, "forward" / "backward" in a round
                        \* of BidirectionalAStar.search
    alg,                \* the search being run
    start, goal,        \* its arguments
    pq,                 \* pq / forward_open: a binary heap as heapq keeps it
    came_from,          \* came_from / forward_came_from
    score,              \* cost_so_far / g_score / fuel_score / forward_g_score
    counter,            \* the push counter
    nodes_explored,
    current,            \* the frontier entry popped last
    backward_open, backward_came_from, backward_g_score,
    forward_closed, backward_closed,
    meeting_point, best_path_cost,
    results,            \* what each search returned
    population_size,    \* GeneticRouteOptimizer.population_size
    generations,        \* GeneticRouteOptimizer.generations
    mutation_rate,      \* GeneticRouteOptimizer.mutation_rate (thousandths)
    ga_pc,              \* where each call of optimize is: "idle", "evaluate",
                        \* "select", "crossover", "rate", "mutate", "replace",
                        \* then "done" or "raised"
    routes,             \* the Route objects each call has created, by identity
    population,         \* each call's population: identities of routes
    parents, offspring, \* each call's parents and offspring
    best_route,         \* each call's best_route: an identity, or 0 for None
    best_fitness,       \* each call's best_fitness
    generation          \* each call's generation

vars == <<width, height, is_land, weather_cost, weather,
          pc, alg, start, goal, pq, came_from, score, counter, nodes_explored,
          current, backward_open, backward_came_from, backward_g_score,
          forward_closed, backward_closed, meeting_point, best_path_cost,
          results, population_size, generations, mutation_rate, ga_pc, routes,
          population, parents, offspring, best_route, best_fitness, generation>>

gaVars == <<population_size, generations, mutation_rate, ga_pc, routes,
            population, parents, offspring, best_route, best_fitness, generation>>
gridVars == <<width, height, is_land, weather_cost, weather>>
biVars == <<backward_open, backward_came_from, backward_g_score,
            forward_closed, backward_closed, meeting_point, best_path_cost>>

----------------------------------------------------------------------------
(* Bounds of the model *)

MaxWidth == 3
MaxHeight == 3
\* a search is followed for at most this many pops for each cell of the grid
PopsPerCell == 4

(* Program constants *)

CellSizeKm == 10        \* NavigationGrid.__init__, cell_size_km
BaseCost == 1000        \* Cell.base_cost = 1.0, in thousandths
ScenarioSize == 10      \* the 10 x 10 grid of the tests' scenario
Infinity == 2000000000  \* float('inf')

UnitsPerKm == 985
CostScale == 1000

DefaultPopulation == 100   \* GeneticRouteOptimizer.__init__, population_size
DefaultGenerations == 50   \* GeneticRouteOptimizer.__init__, generations
InitialRate == 100         \* self.mutation_rate = 0.1, in thousandths
CrossoverRate == 800       \* self.crossover_rate = 0.8, in thousandths
TournamentSize == 5        \* _tournament_selection, tournament_size
MaxWaypoints == 20         \* _mutate adds a waypoint only below 20
MaxDistanceKm == 2000      \* _calculate_fitness, max_distance
MaxFuelTons == 200         \* _calculate_fitness, max_fuel
MaxTimeHours == 100        \* _calculate_fitness, max_time
ScoreScale == 100000       \* a score of 1.0

Max(a, b) == IF a >= b THEN a ELSE b
Min(a, b) == IF a <= b THEN a ELSE b
Abs(a) == IF a >= 0 THEN a ELSE -a

\* float addition, where float('inf') absorbs
Plus(a, b) == IF a >= Infinity \/ b >= Infinity THEN Infinity ELSE a + b

NoCell == <<-1, -1>>    \* None where a Cell is expected

Cells == (0 .. width - 1) \X (0 .. height - 1)

----------------------------------------------------------------------------
(* grid.py *)

\* float sqrt, in fixed point: the greatest r with r * r <= n
RECURSIVE Bisect(_, _, _)
Bisect(n, lo, hi) ==
    IF lo = hi THEN lo
    ELSE LET mid == (lo + hi + 1) \div 2
         IN  IF mid * mid <= n THEN Bisect(n, mid, hi) ELSE Bisect(n, lo, mid - 1)

MaxSide == Max(Max(MaxWidth, MaxHeight), ScenarioSize)

\* np.sqrt(dx**2 + dy**2), in units of 1/UnitsPerKm, for each dx**2 + dy**2
SqrtTable ==
    [d2 \in 0 .. 2 * MaxSide * MaxSide |->
        Bisect(d2 * UnitsPerKm * UnitsPerKm, 0, 2 * MaxSide * UnitsPerKm)]

\* NavigationGrid.get_cell: the cell, or None
get_cell(x, y) ==
    IF 0 <= x /\ x < width /\ 0 <= y /\ y < height THEN <<x, y>> ELSE NoCell

\* Cell.total_cost
total_cost(c) == IF is_land[c] THEN Infinity ELSE BaseCost + weather_cost[c]

\* the directions of get_neighbors, in its order
Directions4 == << <<0, 1>>, <<1, 0>>, <<0, -1>>, <<-1, 0>> >>
\* the directions with one diagonal twice and one missing
Directions8Skewed == Directions4 \o << <<1, 1>>, <<1, -1>>, <<-1, 1>>, <<1, 1>> >>
Directions8 == Directions4 \o << <<1, 1>>, <<1, -1>>, <<-1, 1>>, <<-1, -1>> >>

\* get_neighbors without `not neighbor.is_land`
RECURSIVE CollectNeighborsOnLand(_, _, _)
CollectNeighborsOnLand(cell, directions, i) ==
    IF i > Len(directions) THEN <<>>
    ELSE LET neighbor == get_cell(cell[1] + directions[i][1], cell[2] + directions[i][2])
             rest == CollectNeighborsOnLand(cell, directions, i + 1)
         IN  IF neighbor # NoCell THEN <<neighbor>> \o rest ELSE rest

RECURSIVE CollectNeighbors(_, _, _)
CollectNeighbors(cell, directions, i) ==
    IF i > Len(directions) THEN <<>>
    ELSE LET neighbor == get_cell(cell[1] + directions[i][1], cell[2] + directions[i][2])
             rest == CollectNeighbors(cell, directions, i + 1)
         IN  IF neighbor # NoCell /\ ~is_land[neighbor]
             THEN <<neighbor>> \o rest
             ELSE rest

\* get_neighbors that never adds the diagonal directions
get_neighbors_orthogonal(cell, allow_diagonal) == CollectNeighbors(cell, Directions4, 1)

get_neighbors(cell, allow_diagonal) ==
    CollectNeighbors(cell, IF allow_diagonal THEN Directions8 ELSE Directions4, 1)

get_distance(cell1, cell2) ==
    LET dx == Abs(cell1[1] - cell2[1])
        dy == Abs(cell1[2] - cell2[2])
    IN  SqrtTable[dx * dx + dy * dy] * CellSizeKm

get_movement_cost(from_cell, to_cell) ==
    IF is_land[to_cell] THEN Infinity
    ELSE get_distance(from_cell, to_cell) * total_cost(to_cell)

RECURSIVE PathLengthFrom(_, _)
PathLengthFrom(path, i) ==
    IF i >= Len(path) THEN 0
    ELSE get_distance(path[i], path[i + 1]) + PathLengthFrom(path, i + 1)

get_path_length(path) ==
    IF Len(path) < 2 THEN 0 ELSE PathLengthFrom(path, 1)

RECURSIVE PathCostFrom(_, _)
PathCostFrom(path, i) ==
    IF i >= Len(path) THEN 0
    ELSE Plus(get_movement_cost(path[i], path[i + 1]), PathCostFrom(path, i + 1))

get_path_cost(path) ==
    IF Len(path) < 2 THEN 0 ELSE PathCostFrom(path, 1)

\* the cells set_land_region(x_start, y_start, x_end, y_end) marks
RegionCells(x_start, y_start, x_end, y_end) ==
    {c \in Cells :
        /\ Max(0, x_start) <= c[1] /\ c[1] < Min(width, x_end + 1)
        /\ Max(0, y_start) <= c[2] /\ c[2] < Min(height, y_end + 1)}

\* add_island without the test of the distance to the centre: a square
IslandCellsSquare(center_x, center_y, radius) ==
    {c \in Cells :
        /\ Max(0, center_x - radius) <= c[1] /\ c[1] < Min(width, center_x + radius + 1)
        /\ Max(0, center_y - radius) <= c[2] /\ c[2] < Min(height, center_y + radius + 1)}

\* the cells add_island(center_x, center_y, radius) marks
IslandCells(center_x, center_y, radius) ==
    {c \in Cells :
        /\ Max(0, center_x - radius) <= c[1] /\ c[1] < Min(width, center_x + radius + 1)
        /\ Max(0, center_y - radius) <= c[2] /\ c[2] < Min(height, center_y + radius + 1)
        /\ (c[1] - center_x) * (c[1] - center_x) + (c[2] - center_y) * (c[2] - center_y)
              <= radius * radius}

----------------------------------------------------------------------------
(* weather.py *)

\* np.arctan2(dy, dx) for a step to a neighbour, in units of pi/4
Heading(dx, dy) ==
    CASE dx = 1 /\ dy = 0 -> 0
      [] dx = 1 /\ dy = 1 -> 1
      [] dx = 0 /\ dy = 1 -> 2
      [] dx = -1 /\ dy = 1 -> 3
      [] dx = -1 /\ dy = 0 -> 4
      [] dx = -1 /\ dy = -1 -> -3
      [] dx = 0 /\ dy = -1 -> -2
      [] dx = 1 /\ dy = -1 -> -1
      [] OTHER -> 0

\* 1000 * cos(k * pi/4) for k = 0 .. 4
Cos1000(k) ==
    CASE k = 0 -> 1000 [] k = 1 -> 707 [] k = 2 -> 0 [] k = 3 -> -707 [] OTHER -> -1000

\* abs(((heading - direction + pi) % (2 * pi)) - pi), in units of pi/4
RelativeAngle(heading, direction) == Abs(((heading - direction + 4) % 8) - 4)

\* WeatherSystem.calculate_weather_cost, in thousandths.  Wind and current
\* speeds are in knots, wave heights in metres, directions in units of pi/4.
calculate_weather_cost(cell, heading) ==
    IF is_land[cell] THEN 0
    ELSE LET wave_cost == CostScale + (CostScale * weather.wave_height[cell]) \div 10
             wind_factor == Cos1000(RelativeAngle(heading, weather.wind_direction[cell]))
             wind_cost == CostScale - (wind_factor * weather.wind_speed[cell]) \div 100
             current_factor ==
                 Cos1000(RelativeAngle(heading, weather.current_direction[cell]))
             current_cost == CostScale - (current_factor * weather.current_speed[cell]) \div 50
             total == (((wave_cost * wind_cost) \div CostScale) * current_cost) \div CostScale
         IN  Max(CostScale \div 10, total)

\* WeatherSystem.get_fuel_consumption: distance_nm * base_consumption * weather_cost
get_fuel_consumption(distance_km, w_cost) == distance_km * w_cost

----------------------------------------------------------------------------
(* heapq, on the tuples the searches push.  An entry is [key, cell]: key is   *)
(* <<priority, counter>> in ShipRouter and <<priority>> in BidirectionalAStar *)

RECURSIVE SeqLess(_, _, _)
SeqLess(a, b, i) ==
    IF i > Len(a) THEN FALSE
    ELSE IF a[i] # b[i] THEN a[i] < b[i]
    ELSE SeqLess(a, b, i + 1)

\* a < b on tuples: the first differing element decides; a Cell has __eq__
\* but no __lt__, so two different cells that are reached raise TypeError
TupleLess(a, b) ==
    IF a.key # b.key THEN (IF SeqLess(a.key, b.key, 1) THEN "lt" ELSE "ge")
    ELSE IF a.cell = b.cell THEN "ge"
    ELSE "TypeError"

\* heapq._siftdown(heap, startpos, pos), positions from 0
RECURSIVE SiftDown(_, _, _, _)
SiftDown(heap, startpos, pos, newitem) ==
    IF pos > startpos
    THEN LET parentpos == (pos - 1) \div 2
             parent == heap[parentpos + 1]
             less == TupleLess(newitem, parent)
         IN  IF less = "TypeError" THEN [heap |-> heap, raised |-> TRUE]
             ELSE IF less = "lt"
             THEN SiftDown([heap EXCEPT ![pos + 1] = parent], startpos, parentpos, newitem)
             ELSE [heap |-> [heap EXCEPT ![pos + 1] = newitem], raised |-> FALSE]
    ELSE [heap |-> [heap EXCEPT ![pos + 1] = newitem], raised |-> FALSE]

\* heapq.heappush
heappush(heap, item) == SiftDown(Append(heap, item), 0, Len(heap), item)

\* heapq._siftup(heap, pos): the smaller child moves up until a leaf is hit,
\* then newitem is sifted down from there
RECURSIVE SiftUp(_, _, _, _)
SiftUp(heap, startpos, pos, newitem) ==
    LET endpos == Len(heap)
        childpos == 2 * pos + 1
        rightpos == childpos + 1
    IN  IF childpos < endpos
        THEN LET less == IF rightpos < endpos
                         THEN TupleLess(heap[childpos + 1], heap[rightpos + 1])
                         ELSE "lt"
                 child == IF less = "lt" THEN childpos ELSE rightpos
             IN  IF less = "TypeError" THEN [heap |-> heap, raised |-> TRUE]
                 ELSE SiftUp([heap EXCEPT ![pos + 1] = heap[child + 1]],
                             startpos, child, newitem)
        ELSE SiftDown(heap, startpos, pos, newitem)

\* list.pop in place of heapq.heappop: the entry pushed last
pop_last(heap) ==
    [item |-> heap[Len(heap)], heap |-> SubSeq(heap, 1, Len(heap) - 1), raised |-> FALSE]

\* heapq.heappop: [item, heap, raised]
heappop(heap) ==
    LET lastelt == heap[Len(heap)]
        rest == SubSeq(heap, 1, Len(heap) - 1)
    IN  IF rest = <<>> THEN [item |-> lastelt, heap |-> rest, raised |-> FALSE]
        ELSE LET sifted == SiftUp([rest EXCEPT ![1] = lastelt], 0, 0, lastelt)
             IN  [item |-> rest[1], heap |-> sifted.heap, raised |-> sifted.raised]

----------------------------------------------------------------------------
(* algorithms.py: the skeleton the four searches of ShipRouter share *)

\* the searches, in the order the caller runs them
Algorithms == <<"dijkstra", "a_star", "weather_aware", "fuel_optimized", "bidirectional">>
AlgorithmNames == {Algorithms[i] : i \in 1 .. Len(Algorithms)}
SingleObjective == AlgorithmNames \ {"bidirectional"}

\* the two searches without `if not self.weather: return self.a_star(...)`
VariantWithoutFallback(a) == a

\* weather_aware_astar and fuel_optimized return self.a_star(start, goal)
\* when the router has no weather
Variant(a) ==
    IF a \in {"weather_aware", "fuel_optimized"} /\ ~weather.present THEN "a_star" ELSE a

HeadingTo(from_cell, to_cell) == Heading(to_cell[1] - from_cell[1], to_cell[2] - from_cell[2])

\* what one step adds to the running score
StepCost(a, from_cell, to_cell) ==
    CASE a = "weather_aware" ->
            get_distance(from_cell, to_cell)
              * calculate_weather_cost(to_cell, HeadingTo(from_cell, to_cell))
      [] a = "fuel_optimized" ->
            get_fuel_consumption(get_distance(from_cell, to_cell),
                calculate_weather_cost(to_cell, HeadingTo(from_cell, to_cell)))
      [] OTHER -> get_movement_cost(from_cell, to_cell)

\* priority = new_cost - heuristic: the estimate with the wrong sign
heuristic_negated(a, cell) ==
    IF a = "dijkstra" THEN 0 ELSE 0 - get_distance(cell, goal) * CostScale

\* heuristic(cell) of each search; a distance in km counts as a cost at 1.0
heuristic(a, cell) ==
    CASE a = "dijkstra" -> 0
      [] a = "fuel_optimized" -> get_fuel_consumption(get_distance(cell, goal), CostScale)
      [] OTHER -> get_distance(cell, goal) * CostScale

\* the for loop without `or new_cost < cost_so_far[neighbor]`: the first
\* score found for a cell stays
RECURSIVE RelaxOnce(_, _, _, _, _)
RelaxOnce(a, st, cur, neighbors, i) ==
    IF i > Len(neighbors) \/ st.raised THEN st
    ELSE LET neighbor == neighbors[i]
             tentative == Plus(st.score[cur], StepCost(a, cur, neighbor))
         IN  IF neighbor \notin DOMAIN st.score
             THEN LET f_score == Plus(tentative, heuristic(a, neighbor))
                      pushed == heappush(st.pq,
                          [key |-> <<f_score, st.counter + 1>>, cell |-> neighbor])
                  IN  RelaxOnce(a,
                            [pq |-> pushed.heap,
                             came_from |-> (neighbor :> cur) @@ st.came_from,
                             score |-> (neighbor :> tentative) @@ st.score,
                             counter |-> st.counter + 1,
                             raised |-> pushed.raised],
                            cur, neighbors, i + 1)
             ELSE RelaxOnce(a, st, cur, neighbors, i + 1)

\* the for loop pushing every neighbour at every pop: the test `neighbor not
\* in cost_so_far or new_cost < cost_so_far[neighbor]` guards the score and
\* the predecessor only
RECURSIVE RelaxAlways(_, _, _, _, _)
RelaxAlways(a, st, cur, neighbors, i) ==
    IF i > Len(neighbors) \/ st.raised THEN st
    ELSE LET neighbor == neighbors[i]
             tentative == Plus(st.score[cur], StepCost(a, cur, neighbor))
             better == neighbor \notin DOMAIN st.score \/ tentative < st.score[neighbor]
             f_score == Plus(tentative, heuristic(a, neighbor))
             pushed == heappush(st.pq,
                 [key |-> <<f_score, st.counter + 1>>, cell |-> neighbor])
         IN  RelaxAlways(a,
                   [pq |-> pushed.heap,
                    came_from |-> IF better THEN (neighbor :> cur) @@ st.came_from
                                  ELSE st.came_from,
                    score |-> IF better THEN (neighbor :> tentative) @@ st.score
                              ELSE st.score,
                    counter |-> st.counter + 1,
                    raised |-> pushed.raised],
                   cur, neighbors, i + 1)

\* the for loop over get_neighbors(current) of the four searches
RECURSIVE Relax(_, _, _, _, _)
Relax(a, st, cur, neighbors, i) ==
    IF i > Len(neighbors) \/ st.raised THEN st
    ELSE LET neighbor == neighbors[i]
             tentative == Plus(st.score[cur], StepCost(a, cur, neighbor))
         IN  IF neighbor \notin DOMAIN st.score \/ tentative < st.score[neighbor]
             THEN LET f_score == Plus(tentative, heuristic(a, neighbor))
                      pushed == heappush(st.pq,
                          [key |-> <<f_score, st.counter + 1>>, cell |-> neighbor])
                  IN  Relax(a,
                            [pq |-> pushed.heap,
                             came_from |-> (neighbor :> cur) @@ st.came_from,
                             score |-> (neighbor :> tentative) @@ st.score,
                             counter |-> st.counter + 1,
                             raised |-> pushed.raised],
                            cur, neighbors, i + 1)
             ELSE Relax(a, st, cur, neighbors, i + 1)

\* the chain as the while loop collects it, without path.reverse()
RECURSIVE ChainUnreversed(_, _)
ChainUnreversed(cf, cell) ==
    IF cell = NoCell THEN <<>> ELSE <<cell>> \o ChainUnreversed(cf, cf[cell])

\* the chain of predecessors that ends in cell, first to last
RECURSIVE Chain(_, _)
Chain(cf, cell) == IF cell = NoCell THEN <<>> ELSE Append(Chain(cf, cf[cell]), cell)

\* _reconstruct_path that appends goal before it looks it up
reconstruct_path_goal_first(cf, s, g) == IF g \notin DOMAIN cf THEN <<g>> ELSE Chain(cf, g)

\* ShipRouter._reconstruct_path
reconstruct_path(cf, s, g) == IF g \notin DOMAIN cf THEN <<>> ELSE Chain(cf, g)

\* the fuel of a path under the weather, leg by leg
RECURSIVE PathFuelFrom(_, _)
PathFuelFrom(path, i) ==
    IF i >= Len(path) THEN 0
    ELSE get_fuel_consumption(get_distance(path[i], path[i + 1]),
              calculate_weather_cost(path[i + 1], HeadingTo(path[i], path[i + 1])))
         + PathFuelFrom(path, i + 1)

\* fuel = distance * 0.15 / 1.852: the default rate, weather cost 1.0
DefaultFuel(distance) == distance * CostScale

Label(a) ==
    CASE a = "dijkstra" -> "Dijkstra"
      [] a = "a_star" -> "A*"
      [] a = "weather_aware" -> "Weather-Aware A*"
      [] a = "fuel_optimized" -> "Fuel-Optimized"
      [] OTHER -> "Bidirectional A*"

Pending ==
    [status |-> "pending", path |-> <<>>, distance_km |-> 0, cost |-> 0, fuel_tons |-> 0,
     time_hours |-> 0, nodes_explored |-> 0, algorithm |-> ""]

Raised(a) == [Pending EXCEPT !.status = "TypeError", !.algorithm = Label(a)]

\* ShipRouter._create_result
create_result(path, explored, a) ==
    IF path = <<>>
    THEN [status |-> "returned", path |-> <<>>, distance_km |-> 0, cost |-> 0,
          fuel_tons |-> 0, time_hours |-> 0, nodes_explored |-> explored,
          algorithm |-> Label(a)]
    ELSE LET distance == get_path_length(path)
         IN  [status |-> "returned", path |-> path, distance_km |-> distance,
              cost |-> get_path_cost(path),
              fuel_tons |-> IF weather.present THEN PathFuelFrom(path, 1)
                            ELSE DefaultFuel(distance),
              time_hours |-> distance,
              nodes_explored |-> explored, algorithm |-> Label(a)]

----------------------------------------------------------------------------
(* The inputs *)

Field(v) == [c \in Cells |-> v]

\* a WeatherSystem: its five arrays (np.zeros at construction)
WeatherSystem(wind_speed, wind_direction, wave_height, current_speed, current_direction) ==
    [present |-> TRUE, wind_speed |-> wind_speed, wind_direction |-> wind_direction,
     wave_height |-> wave_height, current_speed |-> current_speed,
     current_direction |-> current_direction]

\* ShipRouter(grid): weather = None
NoWeather ==
    [WeatherSystem(Field(0), Field(0), Field(0), Field(0), Field(0)) EXCEPT !.present = FALSE]

\* WeatherSystem(grid), no pattern generated
CalmWeather == WeatherSystem(Field(0), Field(0), Field(0), Field(0), Field(0))

\* a strong wind blowing east, weaker over one cell
TailwindWeather ==
    WeatherSystem([c \in Cells |-> IF c = <<1, 0>> THEN 50 ELSE 95],
                  Field(0), Field(0), Field(0), Field(0))

\* wind from the south, a storm over one cell, a current setting west
StormWeather ==
    WeatherSystem([c \in Cells |-> IF c = <<1, 1>> THEN 60 ELSE 20],
                  Field(2),
                  [c \in Cells |-> IF c = <<1, 1>> THEN 8 ELSE 2],
                  Field(25), Field(4))

WeatherInputs == {NoWeather, CalmWeather, TailwindWeather, StormWeather}

\* arguments of set_land; the last is out of range
LandInputs == {<<1, 1>>, <<0, 1>>, <<width, 0>>}
\* arguments of set_land_region: a wall with a gap, a wall from edge to edge
RegionInputs == {<<1, 0, 1, 1>>, <<1, -1, 1, height>>}
\* arguments of add_island
IslandInputs == {<<1, 1, 1>>, <<0, 0, 1>>}
\* arguments of set_weather_cost; the last is out of range
CostInputs == {<<1, 0, -1000>>, <<1, 0, -500>>, <<1, 1, 1000>>, <<0, height, 1000>>}

Water == {c \in Cells : ~is_land[c]}

----------------------------------------------------------------------------
(* The state after NavigationGrid(width, height) and ShipRouter(grid, weather) *)

NoSearch ==
    /\ alg = ""
    /\ start = NoCell
    /\ goal = NoCell
    /\ pq = <<>>
    /\ came_from = <<>>
    /\ score = <<>>
    /\ counter = 0
    /\ nodes_explored = 0
    /\ current = NoCell
    /\ backward_open = <<>>
    /\ backward_came_from = <<>>
    /\ backward_g_score = <<>>
    /\ forward_closed = {}
    /\ backward_closed = {}
    /\ meeting_point = NoCell
    /\ best_path_cost = Infinity
    /\ results = [a \in AlgorithmNames |-> Pending]

\* the calls of optimize on one GeneticRouteOptimizer
Calls == {1, 2}

\* GeneticRouteOptimizer(grid, weather, size, gens), optimize not yet called
NoOptimize(size, gens) ==
    /\ population_size = size
    /\ generations = gens
    /\ mutation_rate = InitialRate
    /\ ga_pc = [k \in Calls |-> "idle"]
    /\ routes = [k \in Calls |-> <<>>]
    /\ population = [k \in Calls |-> <<>>]
    /\ parents = [k \in Calls |-> <<>>]
    /\ offspring = [k \in Calls |-> <<>>]
    /\ best_route = [k \in Calls |-> 0]
    /\ best_fitness = [k \in Calls |-> -Infinity]
    /\ generation = [k \in Calls |-> 0]

Init ==
    /\ width = MaxWidth
    /\ height = MaxHeight
    /\ is_land = Field(FALSE)
    /\ weather_cost = Field(0)
    /\ weather \in WeatherInputs
    /\ pc = "terrain"
    /\ NoSearch
    /\ NoOptimize(DefaultPopulation, DefaultGenerations)

\* the scenario of the tests: NavigationGrid(10, 10, cell_size_km=10.0), open
\* water everywhere, no weather
InitOpen ==
    /\ width = ScenarioSize
    /\ height = ScenarioSize
    /\ is_land = Field(FALSE)
    /\ weather_cost = Field(0)
    /\ weather = NoWeather
    /\ pc = "ready"
    /\ NoSearch
    /\ NoOptimize(DefaultPopulation, DefaultGenerations)

----------------------------------------------------------------------------
(* Setting the scene before any search, as the tests' fixtures do: terrain *)
(* first, then cell costs (grid.py, weather.py)                           *)

searchVars == <<alg, start, goal, pq, came_from, score, counter, nodes_explored,
                current, results>>

Shape(land) ==
    /\ pc = "terrain"
    /\ pc' = "costs"
    /\ is_land' = [c \in Cells |-> is_land[c] \/ c \in land]
    /\ UNCHANGED <<width, height, weather_cost, weather, searchVars, biVars, gaVars>>

\* NavigationGrid.set_land(x, y, True)
SetLand == \E a \in LandInputs : Shape({get_cell(a[1], a[2])} \ {NoCell})

\* NavigationGrid.set_land_region
SetLandRegion == \E a \in RegionInputs : Shape(RegionCells(a[1], a[2], a[3], a[4]))

\* NavigationGrid.add_island
AddIsland == \E a \in IslandInputs : Shape(IslandCells(a[1], a[2], a[3]))

\* NavigationGrid.set_weather_cost(x, y, cost)
SetWeatherCost ==
    \E a \in CostInputs :
        /\ pc \in {"terrain", "costs"}
        /\ pc' = "ready"
        /\ weather_cost' = [c \in Cells |->
                              IF c = get_cell(a[1], a[2]) THEN a[3] ELSE weather_cost[c]]
        /\ UNCHANGED <<width, height, is_land, weather, searchVars, biVars, gaVars>>

\* WeatherSystem.apply_weather_to_grid
ApplyWeatherToGrid ==
    /\ pc \in {"terrain", "costs"}
    /\ weather.present
    /\ pc' = "ready"
    /\ weather_cost' = [c \in Cells |->
                          IF ~is_land[c] THEN calculate_weather_cost(c, 0) - CostScale
                          ELSE weather_cost[c]]
    /\ UNCHANGED <<width, height, is_land, weather, searchVars, biVars, gaVars>>

----------------------------------------------------------------------------
(* The searches.  A caller runs them one after the other on the same start *)
(* and goal, in the order of compare_algorithms, then the bidirectional one *)

Scene == {"terrain", "costs", "ready"}

Done == {a \in AlgorithmNames : results[a].status # "pending"}

\* the position of the search to call next
NextCall == Cardinality(Done) + 1

Ready ==
    /\ NextCall <= Len(Algorithms)
    /\ \/ pc \in Scene /\ Water # {}
       \/ pc = "idle"

\* the arguments of the next call: one of `first` for the first call, the
\* same two cells for the others
Arguments(first) ==
    IF pc \in Scene THEN first ELSE {<<start, goal>>}

\* where the searches of the 10 x 10 scenario start
ScenarioStarts == {<<0, 0>>, <<4, 5>>, <<9, 2>>}

\* the first lines of dijkstra, a_star, weather_aware_astar, fuel_optimized
Enter(a, s, g) ==
    /\ alg' = a
    /\ start' = s
    /\ goal' = g
    /\ pq' = <<[key |-> <<0, 0>>, cell |-> s]>>
    /\ came_from' = (s :> NoCell)
    /\ score' = (s :> 0)
    /\ nodes_explored' = 0
    /\ counter' = 0
    /\ current' = NoCell
    /\ UNCHANGED <<gridVars, gaVars, results>>

CallWith(searches, first) ==
    /\ Ready
    /\ Algorithms[NextCall] \in searches
    /\ \E sg \in Arguments(first) : Enter(Algorithms[NextCall], sg[1], sg[2])
    /\ pc' = "loop"
    /\ UNCHANGED biVars

\* any two cells of open water
Call == CallWith(SingleObjective, Water \X Water)

\* dijkstra, then a_star, from a scenario start to any cell
CallOpen == CallWith({"dijkstra", "a_star"}, ScenarioStarts \X Cells)

Return(result) ==
    /\ results' = [results EXCEPT ![alg] = result]
    /\ pc' = "idle"

\* one turn of `while pq:` and, when the loop ends with it, the return
Iterate ==
    /\ pc = "loop"
    /\ nodes_explored < PopsPerCell * width * height
    /\ LET popped == heappop(pq)
           cur == popped.item.cell
           a == Variant(alg)
           relaxed == Relax(a,
                            [pq |-> popped.heap, came_from |-> came_from, score |-> score,
                             counter |-> counter, raised |-> FALSE],
                            cur, get_neighbors(cur, TRUE), 1)
       IN  IF popped.raised
           THEN /\ Return(Raised(a))
                /\ UNCHANGED <<pq, came_from, score, counter, nodes_explored, current>>
           ELSE /\ current' = cur
                /\ nodes_explored' = nodes_explored + 1
                /\ IF cur = goal
                   THEN /\ pq' = popped.heap
                        /\ UNCHANGED <<came_from, score, counter>>
                        /\ Return(create_result(reconstruct_path(came_from, start, goal),
                                                nodes_explored + 1, a))
                   ELSE /\ pq' = relaxed.pq
                        /\ came_from' = relaxed.came_from
                        /\ score' = relaxed.score
                        /\ counter' = relaxed.counter
                        /\ IF relaxed.raised THEN Return(Raised(a))
                           ELSE IF relaxed.pq = <<>>
                           THEN Return(create_result(
                                    reconstruct_path(relaxed.came_from, start, goal),
                                    nodes_explored + 1, a))
                           ELSE UNCHANGED <<pc, results>>
    /\ UNCHANGED <<gridVars, gaVars, alg, start, goal, biVars>>

\* compare_algorithms that runs the four searches whatever self.weather is
compare_all_algorithms == [a \in SingleObjective |-> results[a]]

\* ShipRouter.compare_algorithms(start, goal), once the searches it runs have
\* returned: dijkstra and a_star, and the other two `if self.weather`
compare_algorithms ==
    [a \in {"dijkstra", "a_star"} \cup
            (IF weather.present THEN {"weather_aware", "fuel_optimized"} ELSE {})
        |-> results[a]]

----------------------------------------------------------------------------
(* bidirectional_astar.py *)

\* the for loop over get_neighbors of either side; target is the goal for
\* the forward side and the start for the backward side
RECURSIVE BiRelax(_, _, _, _, _, _)
BiRelax(st, cur, neighbors, i, closed, target) ==
    IF i > Len(neighbors) \/ st.raised THEN st
    ELSE LET neighbor == neighbors[i]
             tentative_g == Plus(st.g_score[cur], get_movement_cost(cur, neighbor))
         IN  IF is_land[neighbor] \/ neighbor \in closed
             THEN BiRelax(st, cur, neighbors, i + 1, closed, target)
             ELSE IF neighbor \notin DOMAIN st.g_score \/ tentative_g < st.g_score[neighbor]
             THEN LET f_score == Plus(tentative_g, get_distance(neighbor, target) * CostScale)
                      pushed == heappush(st.open, [key |-> <<f_score>>, cell |-> neighbor])
                  IN  BiRelax([open |-> pushed.heap,
                               came_from |-> (neighbor :> cur) @@ st.came_from,
                               g_score |-> (neighbor :> tentative_g) @@ st.g_score,
                               raised |-> pushed.raised],
                              cur, neighbors, i + 1, closed, target)
             ELSE BiRelax(st, cur, neighbors, i + 1, closed, target)

\* the path with the backward chain begun at the meeting point itself
BiPathMeetingTwice(mp, fwd_from, bwd_from) ==
    LET back == Chain(bwd_from, mp)
    IN  Chain(fwd_from, mp) \o [i \in 1 .. Len(back) |-> back[Len(back) + 1 - i]]

\* the path through the meeting point: the forward chain start .. meeting
\* point, then the backward chain from the meeting point's predecessor on
BiPath(mp, fwd_from, bwd_from) ==
    LET back == Chain(bwd_from, bwd_from[mp])
    IN  Chain(fwd_from, mp) \o [i \in 1 .. Len(back) |-> back[Len(back) + 1 - i]]

\* what search returns once the loop has ended
BiResult(mp, best, fwd_from, bwd_from, explored) ==
    IF mp = NoCell THEN [Pending EXCEPT !.status = "None", !.algorithm = Label("bidirectional")]
    ELSE LET path == BiPath(mp, fwd_from, bwd_from)
             distance == get_path_length(path)
         IN  [status |-> "returned", path |-> path, distance_km |-> distance,
              cost |-> best,
              fuel_tons |-> IF weather.present THEN PathFuelFrom(path, 1)
                            ELSE DefaultFuel(distance),
              time_hours |-> distance,
              nodes_explored |-> explored, algorithm |-> Label("bidirectional")]

\* the first lines of BidirectionalAStar.search
CallBidirectional ==
    /\ Ready
    /\ Algorithms[NextCall] = "bidirectional"
    /\ \E sg \in Arguments(Water \X Water) :
          /\ alg' = "bidirectional"
          /\ start' = sg[1]
          /\ goal' = sg[2]
          /\ pq' = <<[key |-> <<0>>, cell |-> sg[1]]>>
          /\ came_from' = (sg[1] :> NoCell)
          /\ score' = (sg[1] :> 0)
          /\ backward_open' = <<[key |-> <<0>>, cell |-> sg[2]]>>
          /\ backward_came_from' = (sg[2] :> NoCell)
          /\ backward_g_score' = (sg[2] :> 0)
    /\ forward_closed' = {}
    /\ backward_closed' = {}
    /\ meeting_point' = NoCell
    /\ best_path_cost' = Infinity
    /\ nodes_explored' = 0
    /\ current' = NoCell
    /\ pc' = "forward"
    /\ UNCHANGED <<gridVars, gaVars, counter, results>>

\* the forward half without its test of a meeting: only the backward half
\* can end the search
ForwardWithoutMeeting ==
    /\ pc = "forward"
    /\ pq # <<>>
    /\ LET popped == heappop(pq)
           cur == popped.item.cell
           total == Plus(score[cur], backward_g_score[cur])
           met == IF total < best_path_cost THEN cur ELSE meeting_point
           best == IF total < best_path_cost THEN total ELSE best_path_cost
           expanded == BiRelax([open |-> popped.heap, came_from |-> came_from,
                                g_score |-> score, raised |-> FALSE],
                               cur, get_neighbors(cur, TRUE), 1,
                               forward_closed \cup {cur}, goal)
       IN  IF popped.raised
           THEN /\ Return(Raised("bidirectional"))
                /\ UNCHANGED <<pq, came_from, score, nodes_explored, current, biVars>>
           ELSE /\ current' = cur
                /\ IF cur \notin forward_closed
                   THEN /\ forward_closed' = forward_closed \cup {cur}
                        /\ nodes_explored' = nodes_explored + 1
                        /\ pq' = expanded.open
                        /\ came_from' = expanded.came_from
                        /\ score' = expanded.g_score
                        /\ IF expanded.raised
                           THEN Return(Raised("bidirectional"))
                           ELSE /\ pc' = "backward"
                                /\ UNCHANGED results
                        /\ UNCHANGED <<meeting_point, best_path_cost>>
                   ELSE /\ pq' = popped.heap
                        /\ pc' = "backward"
                        /\ UNCHANGED <<came_from, score, nodes_explored, forward_closed,
                                       meeting_point, best_path_cost, results>>
    /\ UNCHANGED <<gridVars, gaVars, alg, start, goal, counter, backward_open,
                   backward_came_from, backward_g_score, backward_closed>>

\* the forward half of one round: "Expand forward search"
Forward ==
    /\ pc = "forward"
    /\ pq # <<>>
    /\ LET popped == heappop(pq)
           cur == popped.item.cell
           total == Plus(score[cur], backward_g_score[cur])
           met == IF total < best_path_cost THEN cur ELSE meeting_point
           best == IF total < best_path_cost THEN total ELSE best_path_cost
           expanded == BiRelax([open |-> popped.heap, came_from |-> came_from,
                                g_score |-> score, raised |-> FALSE],
                               cur, get_neighbors(cur, TRUE), 1,
                               forward_closed \cup {cur}, goal)
       IN  IF popped.raised
           THEN /\ Return(Raised("bidirectional"))
                /\ UNCHANGED <<pq, came_from, score, nodes_explored, current, biVars>>
           ELSE /\ current' = cur
                /\ IF cur \in backward_closed
                   THEN /\ pq' = popped.heap
                        /\ meeting_point' = met
                        /\ best_path_cost' = best
                        /\ Return(BiResult(met, best, came_from, backward_came_from,
                                           nodes_explored))
                        /\ UNCHANGED <<came_from, score, nodes_explored, forward_closed>>
                   ELSE IF cur \notin forward_closed
                   THEN /\ forward_closed' = forward_closed \cup {cur}
                        /\ nodes_explored' = nodes_explored + 1
                        /\ pq' = expanded.open
                        /\ came_from' = expanded.came_from
                        /\ score' = expanded.g_score
                        /\ IF expanded.raised
                           THEN Return(Raised("bidirectional"))
                           ELSE /\ pc' = "backward"
                                /\ UNCHANGED results
                        /\ UNCHANGED <<meeting_point, best_path_cost>>
                   ELSE /\ pq' = popped.heap
                        /\ pc' = "backward"
                        /\ UNCHANGED <<came_from, score, nodes_explored, forward_closed,
                                       meeting_point, best_path_cost, results>>
    /\ UNCHANGED <<gridVars, gaVars, alg, start, goal, counter, backward_open,
                   backward_came_from, backward_g_score, backward_closed>>

\* the backward half of the round: "Expand backward search", then the test
\* of `while forward_open and backward_open`
Backward ==
    /\ pc = "backward"
    /\ backward_open # <<>>
    /\ LET popped == heappop(backward_open)
           cur == popped.item.cell
           total == Plus(score[cur], backward_g_score[cur])
           met == IF total < best_path_cost THEN cur ELSE meeting_point
           best == IF total < best_path_cost THEN total ELSE best_path_cost
           expanded == BiRelax([open |-> popped.heap, came_from |-> backward_came_from,
                                g_score |-> backward_g_score, raised |-> FALSE],
                               cur, get_neighbors(cur, TRUE), 1,
                               backward_closed \cup {cur}, start)
           after == IF cur \in backward_closed THEN popped.heap ELSE expanded.open
       IN  IF popped.raised
           THEN /\ Return(Raised("bidirectional"))
                /\ UNCHANGED <<nodes_explored, current, biVars>>
           ELSE /\ current' = cur
                /\ IF cur \in forward_closed
                   THEN /\ backward_open' = popped.heap
                        /\ meeting_point' = met
                        /\ best_path_cost' = best
                        /\ Return(BiResult(met, best, came_from, backward_came_from,
                                           nodes_explored))
                        /\ UNCHANGED <<backward_came_from, backward_g_score,
                                       nodes_explored, backward_closed>>
                   ELSE /\ backward_open' = after
                        /\ IF cur \notin backward_closed
                           THEN /\ backward_closed' = backward_closed \cup {cur}
                                /\ nodes_explored' = nodes_explored + 1
                                /\ backward_came_from' = expanded.came_from
                                /\ backward_g_score' = expanded.g_score
                           ELSE UNCHANGED <<backward_closed, nodes_explored,
                                            backward_came_from, backward_g_score>>
                        /\ UNCHANGED <<meeting_point, best_path_cost>>
                        /\ IF cur \notin backward_closed /\ expanded.raised
                           THEN Return(Raised("bidirectional"))
                           ELSE IF pq # <<>> /\ after # <<>>
                           THEN /\ pc' = "forward"
                                /\ UNCHANGED results
                           ELSE Return(BiResult(meeting_point, best_path_cost, came_from,
                                                backward_came_from, nodes_explored))
    /\ UNCHANGED <<gridVars, gaVars, alg, start, goal, counter, pq, came_from, score,
                   forward_closed>>

----------------------------------------------------------------------------
(* genetic_optimizer.py.  A Route is an object: routes[k] lists the Routes  *)
(* call k has created, and a population, the parents and the offspring are  *)
(* lists of identities (positions in routes[k]), so that one Route can be   *)
(* in several lists, or several times in one.  Scores are in units of       *)
(* 1/ScoreScale, a fitness in units of 1/(100 * ScoreScale).                *)

\* Route(waypoints=waypoints)
Route(waypoints) ==
    [waypoints |-> waypoints, fitness |-> 0, distance |-> 0, fuel |-> 0,
     safety |-> 0, time |-> 0]

Clamp(v, top) == Max(0, Min(top, v))

\* safety *= 1.0 / weather_cost, leg by leg
RECURSIVE SafetyFrom(_, _, _)
SafetyFrom(waypoints, i, safety) ==
    IF i >= Len(waypoints) THEN safety
    ELSE SafetyFrom(waypoints, i + 1,
             (safety * CostScale)
                 \div calculate_weather_cost(waypoints[i + 1],
                                             HeadingTo(waypoints[i], waypoints[i + 1])))

\* GeneticRouteOptimizer._evaluate_route: the route with its metrics set
evaluate_route(route) ==
    LET waypoints == route.waypoints
        distance == get_path_length(waypoints)
    IN  IF Len(waypoints) < 2
        THEN [route EXCEPT !.distance = Infinity, !.fuel = Infinity, !.safety = 0,
                           !.time = Infinity]
        ELSE [route EXCEPT
                !.distance = distance,
                !.fuel = IF weather.present THEN PathFuelFrom(waypoints, 1)
                         ELSE DefaultFuel(distance),
                !.safety = (IF weather.present THEN SafetyFrom(waypoints, 1, ScoreScale)
                            ELSE ScoreScale) \div Len(waypoints),
                !.time = distance]

\* 1.0 - min(value / most, 1.0), where value * num / den is value / most in
\* units of 1/ScoreScale
Score(value, num, den) ==
    IF value >= Infinity THEN 0 ELSE ScoreScale - Min((value * num) \div den, ScoreScale)

\* GeneticRouteOptimizer._calculate_fitness with the default weights
\* (0.25, 0.35, 0.25, 0.15); distances are in units of 1/UnitsPerKm km, fuel
\* in units of 0.15 / (1.852 * UnitsPerKm * CostScale) t, times in units of
\* 1 / (1.852 * 20 * UnitsPerKm) h
calculate_fitness(route) ==
    LET distance_score == Score(route.distance, 10, (UnitsPerKm * MaxDistanceKm) \div 10000)
        fuel_score == Score(route.fuel, 1, (UnitsPerKm * 1852 * MaxFuelTons) \div 15000)
        safety_score == route.safety
        time_score == Score(route.time, 1000, (UnitsPerKm * 1852 * 20) \div 1000)
        fitness == 25 * distance_score + 35 * fuel_score + 25 * safety_score
                   + 15 * time_score
    IN  IF \E i \in 1 .. Len(route.waypoints) : is_land[route.waypoints[i]]
        THEN fitness \div 10
        ELSE fitness

\* the waypoints generated without the test for land
RECURSIVE WaypointsFromAnyCell(_, _)
WaypointsFromAnyCell(draw, i) ==
    IF i >= draw.num_waypoints THEN <<>>
    ELSE LET n == draw.num_waypoints
             target_x == (start[1] * (n + 1) + (goal[1] - start[1]) * (i + 1)) \div (n + 1)
             target_y == (start[2] * (n + 1) + (goal[2] - start[2]) * (i + 1)) \div (n + 1)
             cell == get_cell(Clamp(target_x + draw.dx, width - 1),
                              Clamp(target_y + draw.dy, height - 1))
         IN  <<cell>> \o WaypointsFromAnyCell(draw, i + 1)

\* the waypoints _initialize_population generates between start and goal for
\* one route; a draw is [num_waypoints, dx, dy]: random.randint(5, 15) and
\* the two random.randint(-5, 5), the same for each waypoint of the route
RECURSIVE WaypointsFrom(_, _)
WaypointsFrom(draw, i) ==
    IF i >= draw.num_waypoints THEN <<>>
    ELSE LET n == draw.num_waypoints
             target_x == (start[1] * (n + 1) + (goal[1] - start[1]) * (i + 1)) \div (n + 1)
             target_y == (start[2] * (n + 1) + (goal[2] - start[2]) * (i + 1)) \div (n + 1)
             cell == get_cell(Clamp(target_x + draw.dx, width - 1),
                              Clamp(target_y + draw.dy, height - 1))
             rest == WaypointsFrom(draw, i + 1)
         IN  IF cell # NoCell /\ ~is_land[cell] THEN <<cell>> \o rest ELSE rest

\* GeneticRouteOptimizer._initialize_population: the routes it creates, one
\* for each draw
initialize_population(draws) ==
    [i \in 1 .. Len(draws) |->
        evaluate_route(Route(<<start>> \o WaypointsFrom(draws[i], 0) \o <<goal>>))]

\* max(tournament, key=lambda r: r.fitness): the first of the greatest
RECURSIVE MaxByFitness(_, _, _, _)
MaxByFitness(heap, tournament, i, winner) ==
    IF i > Len(tournament) THEN winner
    ELSE MaxByFitness(heap, tournament, i + 1,
             IF heap[tournament[i]].fitness > heap[winner].fitness
             THEN tournament[i] ELSE winner)

\* GeneticRouteOptimizer._tournament_selection; samples[t] is the
\* random.sample of tournament t: TournamentSize positions in the population
tournament_selection(heap, pop, samples) ==
    [t \in 1 .. Len(samples) |->
        LET tournament == [j \in 1 .. TournamentSize |-> pop[samples[t][j]]]
        IN  MaxByFitness(heap, tournament, 2, tournament[1])]

\* GeneticRouteOptimizer._crossover from pair i on: [heap, offspring].  The
\* draw of a pair is [u, from_end, offset]: u is random.random() in
\* thousandths, and random.randint(1, min_len - 1) is offset steps from
\* either end of its range
RECURSIVE CrossoverFrom(_, _, _, _, _)
CrossoverFrom(heap, prnts, draws, i, children) ==
    IF i > Len(prnts) - 1 THEN [heap |-> heap, offspring |-> children]
    ELSE LET draw == draws[(i + 1) \div 2]
             parent1 == heap[prnts[i]].waypoints
             parent2 == heap[prnts[i + 1]].waypoints
             min_len == Min(Len(parent1), Len(parent2))
             point == IF draw.from_end THEN Max(1, min_len - 1 - draw.offset)
                      ELSE Min(min_len - 1, 1 + draw.offset)
             child1 == evaluate_route(Route(SubSeq(parent1, 1, point)
                                            \o SubSeq(parent2, point + 1, Len(parent2))))
             child2 == evaluate_route(Route(SubSeq(parent2, 1, point)
                                            \o SubSeq(parent1, point + 1, Len(parent1))))
         IN  IF draw.u < CrossoverRate /\ min_len > 2
             THEN CrossoverFrom(heap \o <<child1, child2>>, prnts, draws, i + 2,
                                children \o <<Len(heap) + 1, Len(heap) + 2>>)
             ELSE CrossoverFrom(heap, prnts, draws, i + 2,
                                children \o <<prnts[i], prnts[i + 1]>>)

\* a mutation whose index ranges over the whole route, the ends included
MutatedWaypointsAnyIndex(waypoints, draw) ==
    LET n == Len(waypoints)
        idx == IF draw.from_end THEN n ELSE 1
    IN  CASE draw.type = "modify" ->
                LET new_cell == get_cell(Clamp(waypoints[idx][1] + draw.dx, width - 1),
                                         Clamp(waypoints[idx][2] + draw.dy, height - 1))
                IN  IF new_cell # NoCell /\ ~is_land[new_cell]
                    THEN [waypoints EXCEPT ![idx] = new_cell]
                    ELSE waypoints
          [] draw.type = "add" /\ n < MaxWaypoints ->
                LET mid_cell == get_cell(Clamp(waypoints[idx][1] + draw.dx, width - 1),
                                         Clamp(waypoints[idx][2] + draw.dy, height - 1))
                IN  IF mid_cell # NoCell /\ ~is_land[mid_cell]
                    THEN SubSeq(waypoints, 1, idx - 1) \o <<mid_cell>>
                         \o SubSeq(waypoints, idx, n)
                    ELSE waypoints
          [] draw.type = "remove" /\ n > 3 ->
                SubSeq(waypoints, 1, idx - 1) \o SubSeq(waypoints, idx + 1, n)
          [] OTHER -> waypoints

\* one mutation of _mutate on the waypoints of a route.  The draw is
\* [u, type, from_end, dx, dy]: random.choice of the type, the random.randint
\* of idx at either end of its range, and the two random.randint offsets
MutatedWaypoints(waypoints, draw) ==
    LET n == Len(waypoints)
    IN  CASE draw.type = "modify" ->
                LET idx == IF draw.from_end THEN n - 1 ELSE 2
                    new_cell == get_cell(Clamp(waypoints[idx][1] + draw.dx, width - 1),
                                         Clamp(waypoints[idx][2] + draw.dy, height - 1))
                IN  IF new_cell # NoCell /\ ~is_land[new_cell]
                    THEN [waypoints EXCEPT ![idx] = new_cell]
                    ELSE waypoints
          [] draw.type = "add" /\ n < MaxWaypoints ->
                LET idx == IF draw.from_end THEN n ELSE 2
                    prev == waypoints[idx - 1]
                    next_wp == waypoints[idx]
                    mid_cell == get_cell(
                        Clamp((prev[1] + next_wp[1]) \div 2 + draw.dx, width - 1),
                        Clamp((prev[2] + next_wp[2]) \div 2 + draw.dy, height - 1))
                IN  IF mid_cell # NoCell /\ ~is_land[mid_cell]
                    THEN SubSeq(waypoints, 1, idx - 1) \o <<mid_cell>>
                         \o SubSeq(waypoints, idx, n)
                    ELSE waypoints
          [] draw.type = "remove" /\ n > 3 ->
                LET idx == IF draw.from_end THEN n - 1 ELSE 2
                IN  SubSeq(waypoints, 1, idx - 1) \o SubSeq(waypoints, idx + 1, n)
          [] OTHER -> waypoints

\* GeneticRouteOptimizer._mutate from offspring i on, in place: the heap
\* after it.  rate is self.mutation_rate as the loop reads it
RECURSIVE MutateFrom(_, _, _, _, _)
MutateFrom(heap, children, draws, i, rate) ==
    IF i > Len(children) THEN heap
    ELSE LET route == heap[children[i]]
         IN  IF draws[i].u < rate /\ Len(route.waypoints) > 2
             THEN MutateFrom(
                      [heap EXCEPT ![children[i]] =
                          evaluate_route([route EXCEPT
                              !.waypoints = MutatedWaypoints(route.waypoints, draws[i])])],
                      children, draws, i + 1, rate)
             ELSE MutateFrom(heap, children, draws, i + 1, rate)

\* population.sort(key=lambda r: r.fitness, reverse=True): a stable sort
RECURSIVE SortByFitness(_, _)
SortByFitness(heap, pop) ==
    IF pop = <<>> THEN <<>>
    ELSE LET first == CHOOSE i \in 1 .. Len(pop) :
                          /\ \A j \in 1 .. Len(pop) :
                                heap[pop[j]].fitness <= heap[pop[i]].fitness
                          /\ \A j \in 1 .. i - 1 :
                                heap[pop[j]].fitness < heap[pop[i]].fitness
         IN  <<pop[first]>>
             \o SortByFitness(heap, SubSeq(pop, 1, first - 1)
                                    \o SubSeq(pop, first + 1, Len(pop)))

\* the for loop of optimize over the population, from position i on: each
\* route's fitness is set and the best so far kept; [heap, best_route,
\* best_fitness]
RECURSIVE EvaluateFrom(_, _, _, _, _)
EvaluateFrom(heap, pop, i, best, best_fit) ==
    IF i > Len(pop) THEN [heap |-> heap, best_route |-> best, best_fitness |-> best_fit]
    ELSE LET fitness == calculate_fitness(heap[pop[i]])
             updated == [heap EXCEPT ![pop[i]].fitness = fitness]
         IN  IF fitness > best_fit
             THEN EvaluateFrom(updated, pop, i + 1, pop[i], fitness)
             ELSE EvaluateFrom(updated, pop, i + 1, best, best_fit)

\* 0.1 * (1 - generation / self.generations) + 0.01, in thousandths
AdaptiveRate(gen) == InitialRate - (InitialRate * gen) \div generations + 10

Prefix(seq, n) == SubSeq(seq, 1, Min(n, Len(seq)))

\* what an optimize call leaves alone: the grid, the weather and the searches
notGA == <<gridVars, pc, searchVars, biVars>>

\* optimize(start, goal), call k, up to the first generation: the population
\* is initialised and best_route is None; with no generation to run the call
\* returns at once
Optimize(k, draws) ==
    /\ ga_pc[k] = "idle"
    /\ Len(draws) = population_size
    /\ routes' = [routes EXCEPT ![k] = initialize_population(draws)]
    /\ population' = [population EXCEPT ![k] = [i \in 1 .. population_size |-> i]]
    /\ best_route' = [best_route EXCEPT ![k] = 0]
    /\ best_fitness' = [best_fitness EXCEPT ![k] = -Infinity]
    /\ generation' = [generation EXCEPT ![k] = 0]
    /\ ga_pc' = [ga_pc EXCEPT ![k] = IF generations = 0 THEN "done" ELSE "evaluate"]
    /\ UNCHANGED <<notGA, population_size, generations, mutation_rate, parents, offspring>>

\* the fitness loop of a generation
Evaluate(k) ==
    /\ ga_pc[k] = "evaluate"
    /\ LET after == EvaluateFrom(routes[k], population[k], 1, best_route[k],
                                 best_fitness[k])
       IN  /\ routes' = [routes EXCEPT ![k] = after.heap]
           /\ best_route' = [best_route EXCEPT ![k] = after.best_route]
           /\ best_fitness' = [best_fitness EXCEPT ![k] = after.best_fitness]
    /\ ga_pc' = [ga_pc EXCEPT ![k] = "select"]
    /\ UNCHANGED <<notGA, population_size, generations, mutation_rate, population,
                   parents, offspring, generation>>

\* parents = self._tournament_selection(population); random.sample raises
\* ValueError when the population is smaller than the tournament
Select(k, samples) ==
    /\ ga_pc[k] = "select"
    /\ Len(samples) = population_size
    /\ IF Len(population[k]) < TournamentSize
       THEN /\ ga_pc' = [ga_pc EXCEPT ![k] = "raised"]
            /\ UNCHANGED parents
       ELSE /\ \A t \in 1 .. Len(samples) :
                  /\ Len(samples[t]) = TournamentSize
                  /\ \A j \in 1 .. TournamentSize :
                        /\ samples[t][j] \in 1 .. Len(population[k])
                        /\ \A i \in 1 .. j - 1 : samples[t][i] # samples[t][j]
            /\ parents' = [parents EXCEPT
                              ![k] = tournament_selection(routes[k], population[k], samples)]
            /\ ga_pc' = [ga_pc EXCEPT ![k] = "crossover"]
    /\ UNCHANGED <<notGA, population_size, generations, mutation_rate, routes, population,
                   offspring, best_route, best_fitness, generation>>

\* offspring = self._crossover(parents)
Crossover(k, draws) ==
    /\ ga_pc[k] = "crossover"
    /\ Len(draws) = Len(parents[k]) \div 2
    /\ LET after == CrossoverFrom(routes[k], parents[k], draws, 1, <<>>)
       IN  /\ routes' = [routes EXCEPT ![k] = after.heap]
           /\ offspring' = [offspring EXCEPT ![k] = after.offspring]
    /\ ga_pc' = [ga_pc EXCEPT ![k] = "rate"]
    /\ UNCHANGED <<notGA, population_size, generations, mutation_rate, population, parents,
                   best_route, best_fitness, generation>>

\* self.mutation_rate = 0.1 * (1 - generation / self.generations) + 0.01
SetRate(k) ==
    /\ ga_pc[k] = "rate"
    /\ mutation_rate' = AdaptiveRate(generation[k])
    /\ ga_pc' = [ga_pc EXCEPT ![k] = "mutate"]
    /\ UNCHANGED <<notGA, population_size, generations, routes, population, parents,
                   offspring, best_route, best_fitness, generation>>

\* offspring = self._mutate(offspring, start, goal): the routes are changed
\* in place, the list is the same
Mutate(k, draws) ==
    /\ ga_pc[k] = "mutate"
    /\ Len(draws) = Len(offspring[k])
    /\ routes' = [routes EXCEPT
                     ![k] = MutateFrom(routes[k], offspring[k], draws, 1, mutation_rate)]
    /\ ga_pc' = [ga_pc EXCEPT ![k] = "replace"]
    /\ UNCHANGED <<notGA, population_size, generations, mutation_rate, population, parents,
                   offspring, best_route, best_fitness, generation>>

\* the elitism step, and the end of the generation; after the last one,
\* return best_route
Replace(k) ==
    /\ ga_pc[k] = "replace"
    /\ LET sorted == SortByFitness(routes[k], population[k])
           elite_size == population_size \div 10
       IN  population' = [population EXCEPT
                             ![k] = Prefix(sorted, elite_size)
                                    \o Prefix(offspring[k], population_size - elite_size)]
    /\ generation' = [generation EXCEPT ![k] = @ + 1]
    /\ ga_pc' = [ga_pc EXCEPT
                    ![k] = IF generation[k] + 1 < generations THEN "evaluate" ELSE "done"]
    /\ UNCHANGED <<notGA, population_size, generations, mutation_rate, routes, parents,
                   offspring, best_route, best_fitness>>

\* the random draws of a call.  Each set is a few of the sequences the random
\* module can produce.

Repeat(x, n) == [i \in 1 .. n |-> x]

Genome(num_waypoints, dx, dy) == [num_waypoints |-> num_waypoints, dx |-> dx, dy |-> dy]

\* routes of three kinds in turn
MixedGenomes ==
    [i \in 1 .. population_size |->
        CASE i % 3 = 1 -> Genome(5, 0, 0)
          [] i % 3 = 2 -> Genome(6, -5, 5)
          [] OTHER -> Genome(7, 1, -1)]

\* for _initialize_population: one draw for each route
InitDraws ==
    {Repeat(Genome(5, 0, 0), population_size),
     MixedGenomes,
     [i \in 1 .. population_size |->
         IF i % 2 = 1 THEN Genome(15, 5, -5) ELSE Genome(6, -1, 0)]}

\* tournament t samples the routes from position t on, of n
Rotating(n) ==
    [t \in 1 .. population_size |->
        [j \in 1 .. TournamentSize |-> ((t + j - 2) % Max(1, n)) + 1]]

\* for _tournament_selection over a population of n routes: every tournament
\* the first routes, or tournament t the routes from t on
SampleDraws(n) ==
    {Repeat([j \in 1 .. TournamentSize |-> j], population_size), Rotating(n)}

Cut(u, from_end, offset) == [u |-> u, from_end |-> from_end, offset |-> offset]

\* for _crossover over n pairs
CrossoverDraws(n) ==
    {Repeat(Cut(900, FALSE, 0), n),
     Repeat(Cut(100, FALSE, 0), n),
     Repeat(Cut(100, TRUE, 0), n),
     [i \in 1 .. n |-> IF i = 1 THEN Cut(100, FALSE, 1) ELSE Cut(900, FALSE, 0)]}

Change(u, type, from_end, dx, dy) ==
    [u |-> u, type |-> type, from_end |-> from_end, dx |-> dx, dy |-> dy]

Unchanged == Change(999, "modify", FALSE, 0, 0)

FirstOnly(change, n) == [i \in 1 .. n |-> IF i = 1 THEN change ELSE Unchanged]

\* for _mutate over n routes
MutationDraws(n) ==
    {Repeat(Unchanged, n),
     FirstOnly(Change(0, "modify", FALSE, 1, 0), n),
     FirstOnly(Change(0, "add", TRUE, 0, 0), n),
     FirstOnly(Change(0, "remove", FALSE, 0, 0), n),
     Repeat(Change(80, "modify", TRUE, -3, 3), n),
     Repeat(Change(0, "add", FALSE, -2, 2), n)}

\* a swell over one cell, no wind and no current: the cost of a leg does not
\* depend on its heading
SwellWeather ==
    WeatherSystem(Field(0), Field(0), [c \in Cells |-> IF c = <<1, 0>> THEN 5 ELSE 0],
                  Field(0), Field(0))

\* the state of the searches while only the optimizer runs
NoSearchFrom(s, g) ==
    /\ pc = "ready"
    /\ alg = ""
    /\ start = s
    /\ goal = g
    /\ pq = <<>>
    /\ came_from = <<>>
    /\ score = <<>>
    /\ counter = 0
    /\ nodes_explored = 0
    /\ current = NoCell
    /\ backward_open = <<>>
    /\ backward_came_from = <<>>
    /\ backward_g_score = <<>>
    /\ forward_closed = {}
    /\ backward_closed = {}
    /\ meeting_point = NoCell
    /\ best_path_cost = Infinity
    /\ results = [a \in AlgorithmNames |-> Pending]

\* GeneticRouteOptimizer(grid, weather, population_size, generations) over a
\* grid with or without an island, and the start and goal of the call
InitGA ==
    /\ width = MaxWidth
    /\ height = MaxHeight
    /\ is_land \in {Field(FALSE), [c \in Cells |-> c = <<1, 1>>]}
    /\ weather_cost = Field(0)
    /\ weather \in {NoWeather, SwellWeather}
    /\ \E s \in {<<0, 0>>, <<width - 1, 0>>} :
          NoSearchFrom(s, IF s = <<0, 0>> THEN <<width - 1, height - 1>> ELSE <<0, 1>>)
    /\ \E size \in (4 .. 7) \cup {10}, gens \in 0 .. 2 : NoOptimize(size, gens)

\* one call of optimize
NextGA ==
    \/ \E draws \in InitDraws : Optimize(1, draws)
    \/ Evaluate(1)
    \/ \E samples \in SampleDraws(Len(population[1])) : Select(1, samples)
    \/ \E draws \in CrossoverDraws(Len(parents[1]) \div 2) : Crossover(1, draws)
    \/ SetRate(1)
    \/ \E draws \in MutationDraws(Len(offspring[1])) : Mutate(1, draws)
    \/ Replace(1)

SpecGA == InitGA /\ [][NextGA]_vars

\* two calls of optimize on one optimizer, their steps interleaved (the calls
\* of two threads).  Both calls get the same draws: no crossover, and for
\* every offspring a random() of 0.08, between the mutation rates of the
\* first and of the second generation
InitShared ==
    /\ width = MaxWidth
    /\ height = MaxHeight
    /\ is_land = Field(FALSE)
    /\ weather_cost = Field(0)
    /\ weather = NoWeather
    /\ NoSearchFrom(<<0, 0>>, <<width - 1, height - 1>>)
    /\ NoOptimize(TournamentSize + 1, 2)

NextShared ==
    \E k \in Calls :
        \/ Optimize(k, MixedGenomes)
        \/ Evaluate(k)
        \/ Select(k, Rotating(Len(population[k])))
        \/ Crossover(k, Repeat(Cut(900, FALSE, 0), Len(parents[k]) \div 2))
        \/ SetRate(k)
        \/ Mutate(k, Repeat(Change(80, "add", FALSE, 0, 0), Len(offspring[k])))
        \/ Replace(k)

SpecShared == InitShared /\ [][NextShared]_vars

----------------------------------------------------------------------------

Next ==
    \/ SetLand
    \/ SetLandRegion
    \/ AddIsland
    \/ SetWeatherCost
    \/ ApplyWeatherToGrid
    \/ Call
    \/ Iterate
    \/ CallBidirectional
    \/ Forward
    \/ Backward

Spec == Init /\ [][Next]_vars

NextOpen ==
    \/ CallOpen
    \/ Iterate

SpecOpen == InitOpen /\ [][NextOpen]_vars

\* a turn of `while pq:` seen from outside: the loop is running, its frontier
\* is not empty, and it pops once or returns.  Every Iterate step is such a
\* step, and Iterate can take one wherever this is enabled.
Turn ==
    /\ pc = "loop"
    /\ pq # <<>>
    /\ nodes_explored < PopsPerCell * width * height
    /\ pc' \in {"loop", "idle"}
    /\ nodes_explored' \in {nodes_explored, nodes_explored + 1}

\* the searches with their loop running on: a search that has been entered
\* is not abandoned between two turns of `while pq:`
SpecLive == Init /\ [][Next]_vars /\ WF_<<pc, nodes_explored>>(Turn)

----------------------------------------------------------------------------
(* What the claims speak of *)

Adjacent(a, b) == a # b /\ Abs(a[1] - b[1]) <= 1 /\ Abs(a[2] - b[2]) <= 1

\* the cells joined to cell by a chain of 8-connected cells of open water
RECURSIVE Grow(_)
Grow(reached) ==
    LET more == {c \in Water : \E r \in reached : Adjacent(r, c)}
    IN  IF more \subseteq reached THEN reached ELSE Grow(reached \cup more)

Reachable(cell) == Grow({cell})

Returned(a) == results[a].status = "returned"
\* search a has just ended: its result is the one written last
Ended(a) == pc = "idle" /\ alg = a
Path(a) == results[a].path
Cells_of(path) == {path[k] : k \in 1 .. Len(path)}
ZeroMetrics(r) ==
    r.distance_km = 0 /\ r.cost = 0 /\ r.fuel_tons = 0 /\ r.time_hours = 0

\* C1: no path any of the five searches returns holds a land cell
C1_NoLandOnPath ==
    \A a \in AlgorithmNames :
        (Ended(a) /\ Returned(a)) => \A c \in Cells_of(Path(a)) : ~is_land[c]

\* a wall with a gap stands between start and goal, and all five searches
\* returned a path round it
C1_Witness ==
    /\ is_land[<<1, 0>>] /\ is_land[<<1, 1>>]
    /\ start[1] = 0 /\ goal[1] = 2
    /\ \A a \in AlgorithmNames : Returned(a) /\ Len(Path(a)) >= 3

\* C2: a non-empty path of the four searches of ShipRouter runs from start
\* to goal, and the path is non-empty whenever goal can be reached from start
C2_StartToGoal ==
    \A a \in SingleObjective :
        Ended(a) =>
            /\ Returned(a)
            /\ Path(a) # <<>> => Path(a)[1] = start /\ Path(a)[Len(Path(a))] = goal
            /\ goal \in Reachable(start) => Path(a) # <<>>

C2_Witness ==
    /\ \E c \in Cells : is_land[c]
    /\ weather.present
    /\ \A a \in SingleObjective : Returned(a) /\ Len(Path(a)) >= 4

\* C3 (as claimed): with start = goal every search returns the path <<start>>
\* with distance, cost, fuel and time zero
C3_SingleCell ==
    \A a \in AlgorithmNames :
        (Ended(a) /\ start = goal) =>
            Returned(a) /\ Path(a) = <<start>> /\ ZeroMetrics(results[a])

\* C4: when goal cannot be reached from start, each of the four searches of
\* ShipRouter returns, without raising, an empty path and zero metrics
C4_NoPath ==
    \A a \in SingleObjective :
        (Ended(a) /\ goal \notin Reachable(start)) =>
            Returned(a) /\ Path(a) = <<>> /\ ZeroMetrics(results[a])

\* the goal is cut off, the frontier has emptied, and fuel_optimized (the
\* last of the four, with a weather system) has returned
C4_Witness ==
    /\ goal \notin Reachable(start)
    /\ weather.present
    /\ pq = <<>>
    /\ alg = "fuel_optimized" /\ Returned("fuel_optimized")
    /\ results["fuel_optimized"].nodes_explored > 1


SetMin(S) == CHOOSE m \in S : \A x \in S : m <= x

\* the least total movement cost from cell s to every cell of open water, over
\* all chains of 8-connected cells of open water: each leg costs
\* distance(from, to) * to.total_cost (one round of relaxation per cell;
\* @@ tabulates each round)
RECURSIVE Settle(_, _)
Settle(d, n) ==
    IF n = 0 THEN d
    ELSE Settle([c \in Water |->
                    SetMin({d[c]} \cup
                           {Plus(d[b], get_distance(b, c) * total_cost(c)) :
                                b \in {w \in Water : Adjacent(w, c)}})] @@ <<>>,
                n - 1)

MinCost(s) ==
    Settle([c \in Water |-> IF c = s THEN 0 ELSE Infinity] @@ <<>>, Cardinality(Water))

NonNegativeCosts == \A c \in Water : total_cost(c) >= 0

\* C5: with no negative cell cost, the path dijkstra returns to a goal that
\* can be reached costs the least any path from start to goal costs
C5_DijkstraOptimal ==
    (Ended("dijkstra") /\ Returned("dijkstra") /\ NonNegativeCosts
        /\ goal \in Reachable(start)) =>
        get_path_cost(Path("dijkstra")) = MinCost(start)[goal]

\* dijkstra has returned a path that is longer than the shortest one, being
\* cheaper
C5_Witness ==
    /\ Ended("dijkstra") /\ Returned("dijkstra")
    /\ \E c \in Water : weather_cost[c] # 0
    /\ \E c \in Cells : is_land[c]
    /\ Len(Path("dijkstra")) >= 4

\* C6 (as claimed): with no negative cell cost, the path a_star returns has
\* the total movement cost and the total distance of the path dijkstra returns
C6_AStarOptimal ==
    (Ended("a_star") /\ Returned("a_star") /\ NonNegativeCosts
        /\ goal \in Reachable(start)) =>
        /\ results["a_star"].cost = results["dijkstra"].cost
        /\ results["a_star"].distance_km = results["dijkstra"].distance_km

OpenDefaultGrid == \A c \in Cells : ~is_land[c] /\ weather_cost[c] = 0

\* C7: on a grid of open water with the default cost, dijkstra and a_star
\* return paths of equal length and a_star pops no more entries than dijkstra
C7_AStarNoWorse ==
    (Ended("a_star") /\ OpenDefaultGrid) =>
        /\ Returned("a_star") /\ Returned("dijkstra")
        /\ results["a_star"].distance_km = results["dijkstra"].distance_km
        /\ results["a_star"].nodes_explored <= results["dijkstra"].nodes_explored

\* both have returned a path of at least five legs, a_star after fewer pops
C7_Witness ==
    /\ Ended("a_star") /\ OpenDefaultGrid
    /\ Len(Path("a_star")) >= 6
    /\ results["a_star"].nodes_explored < results["dijkstra"].nodes_explored

\* the scenario: a_star from (0, 0) to (3, 4) on the 10 x 10 grid has returned
Scenario ==
    /\ Ended("a_star") /\ Returned("a_star")
    /\ width = ScenarioSize /\ height = ScenarioSize /\ OpenDefaultGrid
    /\ start = <<0, 0>> /\ goal = <<3, 4>>

\* a length d (in units of 1/UnitsPerKm km) is within 0.1 km of h hundredths of a km
WithinTenthOfKm(d, h) == Abs(100 * d - h * UnitsPerKm) < 10 * UnitsPerKm

\* C8 (as claimed): in the scenario the path of a_star is 50 km long, within 0.1 km
C8_FiftyKm == Scenario => WithinTenthOfKm(results["a_star"].distance_km, 5000)

\* C8 (amended): in the scenario the path of a_star is three diagonal legs and
\* one straight leg, 10 * (3 * sqrt(2) + 1) = 52.43 km long, within 0.1 km
C8_EightConnectedLength ==
    Scenario =>
        /\ WithinTenthOfKm(results["a_star"].distance_km, 5243)
        /\ Len(Path("a_star")) = 5
        /\ \A k \in 1 .. 4 : Adjacent(Path("a_star")[k], Path("a_star")[k + 1])

C8_Witness == Scenario /\ Len(Path("a_star")) = 5

\* entry e comes before entry f: lower priority, or equal priority and pushed
\* earlier
Before(e, f) ==
    e.key[1] < f.key[1] \/ (e.key[1] = f.key[1] /\ e.key[2] < f.key[2])

\* C9: each turn of the loop of a search of ShipRouter pops the one entry
\* that comes before every other entry of the frontier (among entries of equal
\* priority, the one pushed first), and every entry it pushes carries a
\* counter no earlier entry carries; so the run is determined by its input
C9_FifoAmongTies ==
    [][pc = "loop" =>
          /\ \E k \in 1 .. Len(pq) :
                /\ current' = pq[k].cell
                /\ \A j \in 1 .. Len(pq) : j # k => Before(pq[k], pq[j])
          /\ \A k \in 1 .. Len(pq) : pq[k].key[2] <= counter
          /\ \A j \in 1 .. Len(pq') :
                \/ \E k \in 1 .. Len(pq) : pq[k] = pq'[j]
                \/ pq'[j].key[2] > counter /\ pq'[j].key[2] <= counter']_vars

\* the entry about to be popped has the priority of another entry
C9_Witness ==
    /\ pc = "loop"
    /\ Len(pq) >= 3
    /\ \E k \in 2 .. Len(pq) :
          /\ pq[k].key[1] = pq[1].key[1]
          /\ pq[k].cell # pq[1].cell

\* C10 (as claimed): BidirectionalAStar.search returns None exactly when no
\* chain of open water joins start and goal, and otherwise a result whose
\* path is the forward chain start .. meeting point followed by the backward
\* chain meeting point .. goal
C10_BidirectionalResult ==
    Ended("bidirectional") =>
        /\ results["bidirectional"].status \in {"None", "returned"}
        /\ results["bidirectional"].status = "None" <=> goal \notin Reachable(start)
        /\ Returned("bidirectional") =>
              /\ Path("bidirectional")[1] = start
              /\ Path("bidirectional")[Len(Path("bidirectional"))] = goal
              /\ meeting_point # NoCell
              /\ Path("bidirectional") = BiPath(meeting_point, came_from, backward_came_from)

\* C11 (as claimed): the cost BidirectionalAStar.search reports is
\* get_path_cost of the path it returns, as in ShipRouter._create_result
C11_BidirectionalCost ==
    (Ended("bidirectional") /\ Returned("bidirectional")) =>
        results["bidirectional"].cost = get_path_cost(Path("bidirectional"))

ObstacleFree == \A c \in Cells : ~is_land[c]

\* C12 (as claimed): on a grid without land BidirectionalAStar.search reports
\* no more nodes_explored than a_star for the same pair of cells, and its
\* path is no shorter than a_star's
C12_BidirectionalNoWorse ==
    (Ended("bidirectional") /\ ObstacleFree) =>
        /\ Returned("bidirectional")
        /\ results["bidirectional"].nodes_explored <= results["a_star"].nodes_explored
        /\ results["bidirectional"].distance_km >= results["a_star"].distance_km

\* C13 (as claimed): when the router has a weather system, the path of
\* fuel_optimized burns no more fuel than the path of a_star between the
\* same cells
C13_FuelNoWorse ==
    (Ended("fuel_optimized") /\ weather.present) =>
        /\ Returned("fuel_optimized") /\ Returned("a_star")
        /\ results["fuel_optimized"].fuel_tons <= results["a_star"].fuel_tons

\* C14: a router without weather returns from weather_aware_astar and from
\* fuel_optimized the very result of a_star (path, metrics, nodes_explored),
\* its fuel being the distance at the default rate; neither raises
C14_FallbackToAStar ==
    \A a \in {"weather_aware", "fuel_optimized"} :
        (Ended(a) /\ ~weather.present) =>
            /\ Returned(a)
            /\ results[a] = results["a_star"]
            /\ results[a].fuel_tons = DefaultFuel(get_path_length(Path(a)))

\* without weather, fuel_optimized has returned a path round land over cells
\* of different cost
C14_Witness ==
    /\ Ended("fuel_optimized") /\ ~weather.present
    /\ \E c \in Cells : is_land[c]
    /\ \E c \in Water : weather_cost[c] # 0
    /\ Len(Path("fuel_optimized")) >= 4
    /\ results["fuel_optimized"].fuel_tons > 0

\* the four searches of ShipRouter have returned
Compared == Ended("fuel_optimized")

\* C15: the mapping compare_algorithms returns holds dijkstra and a_star,
\* holds weather_aware and fuel_optimized exactly when the router has
\* weather, and every entry has a path when goal can be reached from start
C15_CompareAlgorithms ==
    Compared =>
        /\ {"dijkstra", "a_star"} \subseteq DOMAIN compare_algorithms
        /\ \A a \in {"weather_aware", "fuel_optimized"} :
              a \in DOMAIN compare_algorithms <=> weather.present
        /\ DOMAIN compare_algorithms \subseteq SingleObjective
        /\ goal \in Reachable(start) =>
              \A a \in DOMAIN compare_algorithms :
                  compare_algorithms[a].status = "returned"
                      /\ compare_algorithms[a].path # <<>>

\* a comparison without weather on a grid with land, the goal reached
C15_Witness ==
    /\ Compared /\ ~weather.present
    /\ \E c \in Cells : is_land[c]
    /\ DOMAIN compare_algorithms = {"dijkstra", "a_star"}
    /\ Len(compare_algorithms["a_star"].path) >= 3

\* the same with weather: four entries
C15_WitnessWeather ==
    /\ Compared /\ weather.present
    /\ Cardinality(DOMAIN compare_algorithms) = 4
    /\ Len(compare_algorithms["fuel_optimized"].path) >= 3

\* the Routes call k holds: its population, its offspring and the one it
\* returns
Held(k) ==
    {population[k][i] : i \in 1 .. Len(population[k])}
    \cup {offspring[k][i] : i \in 1 .. Len(offspring[k])}
    \cup (IF best_route[k] # 0 THEN {best_route[k]} ELSE {})

\* C16: through initialisation, crossover and every kind of mutation, every
\* Route of the population, and the Route optimize returns, begins at start
\* and ends at goal.
C16_Endpoints ==
    \A k \in Calls : \A r \in Held(k) :
        /\ routes[k][r].waypoints[1] = start
        /\ routes[k][r].waypoints[Len(routes[k][r].waypoints)] = goal

\* the second generation is about to be replaced: among the offspring are a
\* child of a crossover and a Route of the first population that a mutation
\* has changed since its fitness was set
C16_Witness ==
    /\ ga_pc[1] = "replace"
    /\ generation[1] = 1
    /\ \E i \in 1 .. Len(offspring[1]) : offspring[1][i] > population_size
    /\ \E i \in 1 .. Len(offspring[1]) :
          /\ offspring[1][i] <= population_size
          /\ routes[1][offspring[1][i]].fitness
                # calculate_fitness(routes[1][offspring[1][i]])
    /\ \A r \in Held(1) : Len(routes[1][r].waypoints) >= 4

Finished(k) == ga_pc[k] = "done"

\* C17: the fitness of the Route optimize returns is at least every fitness
\* computed in the run; best_fitness is the greatest of them, since the loop
\* compares each one it computes with it.
C17_BestSeen ==
    \A k \in Calls :
        (Finished(k) /\ best_route[k] # 0) =>
            routes[k][best_route[k]].fitness >= best_fitness[k]

\* C18: whatever population_size is, the population holds population_size
\* routes at every step from the first generation on, tournament selection
\* yields population_size parents, and no call fails for want of individuals.
C18_PopulationSize ==
    \A k \in Calls :
        /\ ga_pc[k] # "raised"
        /\ ga_pc[k] # "idle" => Len(population[k]) = population_size
        /\ ga_pc[k] \in {"crossover", "rate", "mutate", "replace"} =>
              Len(parents[k]) = population_size

\* the fitness field of Route r of call k is _calculate_fitness of the
\* waypoints (and so the metrics) the Route has now
Fresh(k, r) == routes[k][r].fitness = calculate_fitness(routes[k][r])

\* C19: wherever a fitness is read, it is the fitness of the waypoints the
\* Route has at that moment: in tournament selection, in the elitism sort,
\* and by the caller on the Route returned.
C19_NoStaleRead ==
    \A k \in Calls :
        /\ ga_pc[k] \in {"select", "replace"} =>
              \A i \in 1 .. Len(population[k]) : Fresh(k, population[k][i])
        /\ (Finished(k) /\ best_route[k] # 0) => Fresh(k, best_route[k])

\* C20: two interleaved calls of optimize on one optimizer read nothing the
\* other has written: the mutation probability a call uses in a generation
\* is the one of that generation, and, the draws being the same, both calls
\* end with the Routes either has when it runs alone.
C20_NothingShared ==
    /\ \A k \in Calls : ga_pc[k] = "mutate" => mutation_rate = AdaptiveRate(generation[k])
    /\ (Finished(1) /\ Finished(2)) =>
          /\ routes[1] = routes[2]
          /\ best_route[1] = best_route[2]

\* the headings of the steps to the eight neighbours, in units of pi/4
Headings == -3 .. 4

\* C21: for every cell of the grid, land or water, and every heading,
\* calculate_weather_cost is at least 0.1.
C21_CostFloor ==
    weather.present =>
        \A c \in Cells : \A h \in Headings : calculate_weather_cost(c, h) >= CostScale \div 10

\* the offsets of the neighbours: the 4 orthogonal ones, and the 4 diagonals
\* when allow_diagonal
Offsets(allow_diagonal) ==
    {d \in (-1 .. 1) \X (-1 .. 1) :
        /\ d # <<0, 0>>
        /\ allow_diagonal \/ Abs(d[1]) + Abs(d[2]) = 1}

Interior(c) == 0 < c[1] /\ c[1] < width - 1 /\ 0 < c[2] /\ c[2] < height - 1
Corner(c) == c[1] \in {0, width - 1} /\ c[2] \in {0, height - 1}

\* C22: get_neighbors(c, allow_diagonal) lists, each once, exactly the cells
\* at the 4 (or 8) offsets from c that are on the grid and not land: 8 for
\* an interior cell and 3 for a corner cell of an obstacle-free grid.
C22_Neighbors ==
    \A c \in Cells : \A allow_diagonal \in BOOLEAN :
        LET neighbors == get_neighbors(c, allow_diagonal)
        IN  /\ \A i, j \in 1 .. Len(neighbors) : i # j => neighbors[i] # neighbors[j]
            /\ {neighbors[i] : i \in 1 .. Len(neighbors)}
                  = {n \in Cells : /\ <<n[1] - c[1], n[2] - c[2]>> \in Offsets(allow_diagonal)
                                   /\ ~is_land[n]}
            /\ (ObstacleFree /\ allow_diagonal /\ Interior(c)) => Len(neighbors) = 8
            /\ (ObstacleFree /\ allow_diagonal /\ Corner(c)) => Len(neighbors) = 3

\* a search has run on a grid where the centre cell is water, with some of
\* its neighbours land and some not
C22_Witness ==
    /\ Ended("a_star")
    /\ ~is_land[<<1, 1>>]
    /\ Len(get_neighbors(<<1, 1>>, TRUE)) \in 1 .. 7
    /\ Len(get_neighbors(<<1, 1>>, FALSE)) \in 1 .. 3
    /\ results["a_star"].nodes_explored > 1

\* a search has run on an obstacle-free grid, with its interior and corner
\* cells
C22_WitnessOpen ==
    /\ Ended("a_star")
    /\ ObstacleFree
    /\ results["a_star"].nodes_explored > 1
    /\ \E c \in Cells : Interior(c)

\* the cells of the grid within radius r of (cx, cy), and those of a rectangle
Disc(cx, cy, r) ==
    {c \in Cells : (c[1] - cx) * (c[1] - cx) + (c[2] - cy) * (c[2] - cy) <= r * r}
Rectangle(x_start, y_start, x_end, y_end) ==
    {c \in Cells : x_start <= c[1] /\ c[1] <= x_end /\ y_start <= c[2] /\ c[2] <= y_end}

\* is_land becomes true on the cells of target, and nothing else of the grid
\* changes
OnlyLand(target) ==
    /\ is_land' = [c \in Cells |-> is_land[c] \/ c \in target]
    /\ UNCHANGED <<width, height, weather_cost>>

\* C23: terrain shaping changes only the targeted cells: add_island the
\* in-bounds cells of the disc, set_land_region those of the rectangle,
\* set_land and set_weather_cost one cell, or none when the coordinates are
\* out of range; the other cells and the size of the grid stay as they are.
C23_Frame ==
    [][/\ AddIsland => \E a \in IslandInputs : OnlyLand(Disc(a[1], a[2], a[3]))
       /\ SetLandRegion => \E a \in RegionInputs : OnlyLand(Rectangle(a[1], a[2], a[3], a[4]))
       /\ SetLand => \E a \in LandInputs : OnlyLand({<<a[1], a[2]>>} \cap Cells)
       /\ SetWeatherCost =>
             \E a \in CostInputs :
                /\ \A c \in Cells :
                      weather_cost'[c] = IF c = <<a[1], a[2]>> THEN a[3] ELSE weather_cost[c]
                /\ UNCHANGED <<width, height, is_land>>]_vars

\* add_island(1, 1, 1) has marked the five cells of its disc, and not the
\* corners of its square
C23_Witness ==
    /\ pc = "costs"
    /\ {c \in Cells : is_land[c]} = Disc(1, 1, 1)
    /\ Cardinality(Disc(1, 1, 1)) = 5

\* C24: optimize ends after exactly `generations` generations and returns a
\* Route, never None, whatever the configuration.
C24_ReturnsRoute ==
    \A k \in Calls :
        Finished(k) => (generation[k] = generations /\ best_route[k] # 0)

\* the fitness of Route r of call k is the greatest of its population
Fittest(k, r) ==
    \A j \in 1 .. Len(population[k]) :
        routes[k][population[k][j]].fitness <= routes[k][r].fitness

\* C25: the replace step of every generation carries the fittest Route of
\* the population into the next one, with the waypoints its fitness was
\* computed from.
C25_Elitism ==
    [][\A k \in Calls :
          Replace(k) =>
              \E i \in 1 .. Len(population'[k]) :
                  /\ \E j \in 1 .. Len(population[k]) : population[k][j] = population'[k][i]
                  /\ Fittest(k, population'[k][i])
                  /\ Fresh(k, population'[k][i])]_vars

\* the step ends the search with a meeting at cell c
MeetsAt(c) ==
    /\ meeting_point' = c
    /\ pc' = "idle"
    /\ results'["bidirectional"].status = "returned"

\* the cell the next pop of a frontier yields, when the pop does not raise
Top(open) == heappop(open).item.cell
Pops(open) == open # <<>> /\ ~heappop(open).raised

forwardSide == <<pq, came_from, score, forward_closed>>
backwardSide == <<backward_open, backward_came_from, backward_g_score, backward_closed>>

\* C26: the rounds of BidirectionalAStar.search are one forward pop, then one
\* backward pop; the search stops in the first round where the popped cell is
\* in the closed set of the other side, with that cell as meeting point, and
\* after a meeting no cell is expanded and no score or predecessor changes.
C26_Rounds ==
    [][/\ pc = "forward" =>
             /\ UNCHANGED backwardSide
             /\ pc' \in {"backward", "idle"}
             /\ pc' = "backward" =>
                   /\ meeting_point' = NoCell
                   /\ Top(pq) \notin backward_closed
                   /\ current' = Top(pq)
             /\ (Pops(pq) /\ Top(pq) \in backward_closed) =>
                   (MeetsAt(Top(pq)) /\ UNCHANGED <<came_from, score, forward_closed,
                                                   nodes_explored>>)
       /\ pc = "backward" =>
             /\ UNCHANGED forwardSide
             /\ pc' \in {"forward", "idle"}
             /\ pc' = "forward" =>
                   /\ meeting_point' = NoCell
                   /\ Top(backward_open) \notin forward_closed
                   /\ current' = Top(backward_open)
             /\ (Pops(backward_open) /\ Top(backward_open) \in forward_closed) =>
                   (MeetsAt(Top(backward_open))
                    /\ UNCHANGED <<backward_came_from, backward_g_score, backward_closed,
                                   nodes_explored>>)
       /\ (alg = "bidirectional" /\ meeting_point # NoCell) =>
             UNCHANGED <<forwardSide, backwardSide, nodes_explored, meeting_point>>]_vars

\* a search has ended with a meeting in its third round or later, on a grid
\* with land
C26_Witness ==
    /\ Ended("bidirectional")
    /\ Returned("bidirectional")
    /\ meeting_point # NoCell
    /\ results["bidirectional"].nodes_explored >= 4
    /\ ~ObstacleFree

\* C27: each of dijkstra, a_star, weather_aware_astar and fuel_optimized
\* terminates: a search whose loop has been entered returns.
C27_Terminates == (pc = "loop") ~> (pc = "idle")

\* fuel_optimized has returned over a cost field with a cheap cell, after
\* several pops and with entries left on its frontier
C27_Witness ==
    /\ Ended("fuel_optimized")
    /\ weather.present
    /\ results["fuel_optimized"].nodes_explored > 4
    /\ Len(pq) > 0
    /\ \E c \in Water : total_cost(c) < BaseCost

\* C28: BidirectionalAStar.search ends with a result or None and never
\* raises, also when two entries of a frontier have the same f-score.
C28_NeverRaises == results["bidirectional"].status # "TypeError"

\* each cell of the path is a neighbour of the one before it
Walk(path) == \A i \in 1 .. Len(path) - 1 : Adjacent(path[i], path[i + 1])
\* no cell is twice on the path
Simple(path) == \A i, j \in 1 .. Len(path) : i # j => path[i] # path[j]

\* following the predecessors cf from cell reaches root in at most n steps
RECURSIVE LeadsTo(_, _, _, _)
LeadsTo(cf, cell, root, n) ==
    \/ cell = root /\ cf[cell] = NoCell
    \/ /\ cell # root
       /\ n > 0
       /\ cell \in DOMAIN cf
       /\ cf[cell] # NoCell
       /\ LeadsTo(cf, cf[cell], root, n - 1)

\* C29: every non-empty path a search returns is a simple 8-connected walk;
\* the chain of predecessors of every cell is acyclic and ends at start (at
\* goal for the backward side), and the forward and backward closed sets are
\* disjoint at every step.
C29_SimpleWalk ==
    /\ \A a \in AlgorithmNames :
          (Returned(a) /\ Path(a) # <<>>) => (Walk(Path(a)) /\ Simple(Path(a)))
    /\ \A c \in DOMAIN came_from : LeadsTo(came_from, c, start, Cardinality(Cells))
    /\ \A c \in DOMAIN backward_came_from :
          LeadsTo(backward_came_from, c, goal, Cardinality(Cells))
    /\ forward_closed \cap backward_closed = {}

\* the five searches have returned paths of three cells or more on a grid
\* with land, the bidirectional one through a meeting point that is neither
\* start nor goal
C29_Witness ==
    /\ Ended("bidirectional")
    /\ \A a \in AlgorithmNames : Returned(a) /\ Len(Path(a)) >= 3
    /\ meeting_point \notin {start, goal, NoCell}
    /\ forward_closed # {}
    /\ backward_closed # {}
    /\ ~ObstacleFree

\* C30: with start and goal on water and the grid left as it is during
\* optimize, every waypoint of every Route is a water cell of the grid and
\* every Route has from 2 to MaxWaypoints waypoints, so that neither the
\* land penalty of _calculate_fitness nor the degenerate-route branch of
\* _evaluate_route applies to any Route.
C30_Traversable ==
    (~is_land[start] /\ ~is_land[goal]) =>
        \A k \in Calls : \A r \in 1 .. Len(routes[k]) :
            LET waypoints == routes[k][r].waypoints
            IN  /\ \A i \in 1 .. Len(waypoints) : waypoints[i] \in Water
                /\ Len(waypoints) >= 2
                /\ Len(waypoints) <= MaxWaypoints
                /\ routes[k][r].distance < Infinity

\* on a grid with land, after two generations, one Route of the population
\* has MaxWaypoints waypoints and another Route is the child of a crossover
C30_Witness ==
    /\ ga_pc[1] = "done"
    /\ generation[1] = 2
    /\ ~ObstacleFree
    /\ \E r \in Held(1) : Len(routes[1][r].waypoints) = MaxWaypoints
    /\ \E r \in Held(1) : r > population_size

====
